---- MODULE Spec2Model ----
(***************************************************************************)
(* The language server of wingman-ai (src/src/server/index.ts): the        *)
(* LSPServer object, its postInitialize routine and the "wingman/..."      *)
(* request handlers, as asynchronous handlers interleaved at their awaits. *)
(* The collaborators whose code is not part of the sources at hand (Store, *)
(* Indexer, DocumentQueue, LSPFileEventHandler, VectorQuery) follow their  *)
(* contracts in spec.md sections 3 to 7; where spec.md is silent, a call   *)
(* has every outcome its call site admits.                                 *)
(***************************************************************************)
EXTENDS Integers, FiniteSets, Sequences, TLC

\* Number of postInitialize runs: the startup one plus one per deleteIndex.
MaxInstances == 2

\* Number of "wingman/fullIndexBuild" requests that may be in flight at once.
MaxBuilds == 1

\* Number of client inputs in one run: file saves and "wingman/..." requests.
MaxRequests == 2

Gens == 1..MaxInstances

Builds == 1..MaxBuilds

\* Workspace files and the inclusion filters a client may send.
Paths == {"a.ts", "b.md"}

Filters == {"**/*", "**/*.ts", "{bad"}

\* A glob the Indexer cannot compile (InvalidFilterError).
Malformed(filter) == filter = "{bad"

\* The inclusion predicate: does `filter` accept path p.
Accepts(filter, p) ==
  CASE filter = "**/*" -> TRUE
    [] filter = "**/*.ts" -> p = "a.ts"
    [] OTHER -> FALSE

\* filePathToUri of ./files/utils, and the way back from a URI to its path.
filePathToUri(p) == <<"file://", p>>

UriToPath(u) == u[2]

\* The content hash of file p.  The text of a file is fixed here: a save
\* notifies the server again without changing what the hash is taken of.
Hash(p) == <<"hash", p>>

NoHash == <<>>

EmptyCache == [p \in Paths |-> NoHash]

NoEvent == [type |-> "none"]

\* The response of "wingman/getEmbeddings" when retrieval fails.
EmptyResult == [codeDocs |-> {}, projectDetails |-> ""]

VARIABLES
  vectorStore,      \* LSPServer.vectorStore: instance number, 0 = undefined
  codeGraph,        \* LSPServer.codeGraph: instance number, 0 = undefined
  indexer,          \* LSPServer.indexer
  queue,            \* LSPServer.queue
  fileEventHandler, \* LSPServer.fileEventHandler: what it was constructed with
  registered,       \* addEvents has run: the request handlers are registered
  indexerSettings,  \* the module-level indexerSettings.indexFilter
  enabled,          \* embeddingSettings.enabled
  instances,        \* Store/Indexer/DocumentQueue instances constructed so far
  init,             \* the postInitialize in flight: its position, its caller,
                    \* what initialize() returned
  disk,             \* the persisted index of the workspace folder: whether it
                    \* exists, the files it holds entries (and graph nodes) of
  deleting,         \* Store.deleteIndex calls started and not yet completed
  gNodes,           \* per CodeGraph instance: the keys of its symbol table
  ixFilter,         \* per Indexer instance: its inclusion filter
  ixCache,          \* per Indexer instance: path -> last indexed content hash
  ixSyncing,        \* per Indexer instance: the isSyncing() flag
  qPending,         \* per DocumentQueue instance: the paths awaiting a flush
  qState,           \* per DocumentQueue instance: Empty, Pending or Flushing
  qDisposed,        \* per DocumentQueue instance: dispose() was called
  flush,            \* per DocumentQueue instance: the batch handed to its Indexer
  build,            \* per fullIndexBuild request slot: its position and batch
  getIndexCall,     \* the "wingman/getIndex" request awaiting indexExists()
  getEmbeddingsCall, \* the "wingman/getEmbeddings" request at one of its awaits
  deleteFileCall,   \* the "wingman/deleteFileFromIndex" request awaiting deleteFile()
  requests,         \* client inputs received so far
  event             \* the response or notification the last step produced

\* CodeWriter.codeWriterStep (src/src/composer/tools/code-writer.ts).
VARIABLES
  plan,             \* state.plan.files: NoFiles, or the list of its file objects
  wpc,              \* position of the step
  cursor,           \* index in the plan of the file in scope
  wResult,          \* result: the parsed response of the invocation in progress
  wFiles,           \* files: indexes of the plan's file objects collected
  steps,            \* the local steps: the manual steps gathered so far
  invoked,          \* the file in scope of every model invocation, in order
  dispatched        \* the custom events dispatched, in order

\* ChatInput (src/views-ui/src/Chat/features/Chat/ChatInput.tsx).
VARIABLES
  value,            \* the textarea's value
  loading,          \* the loading prop
  keyDefault,       \* the key whose default action the browser has yet to run
  chatEvent         \* what the last event handled did

writerVars == <<plan, wpc, cursor, wResult, wFiles, steps, invoked, dispatched>>

chatVars == <<value, loading, keyDefault, chatEvent>>

lspVars == <<vectorStore, codeGraph, indexer, queue, fileEventHandler, registered,
             indexerSettings, enabled, instances, init, disk, deleting,
             gNodes, ixFilter, ixCache, ixSyncing, qPending, qState, qDisposed,
             flush, build, getIndexCall, getEmbeddingsCall, deleteFileCall,
             requests, event>>

\* The requests in flight that hold no slot of their own.
callVars == <<getEmbeddingsCall, deleteFileCall>>

vars == <<lspVars, writerVars, chatVars>>

serverVars == <<vectorStore, codeGraph, indexer, queue>>

queueVars == <<qPending, qState, qDisposed, flush>>

indexVars == <<gNodes, ixCache, disk>>

instanceVars == <<gNodes, ixFilter, ixCache, ixSyncing>>

NoHandler == [queue |-> 0, filter |-> "", live |-> FALSE]

IdleBuild == [pc |-> "idle", files |-> {}, store |-> 0, ix |-> 0,
              handed |-> {}, forceFull |-> FALSE, todo |-> {}, skipped |-> {}]

NoCall == [pc |-> "idle", store |-> 0]

NoRetrieval == [pc |-> "idle", graph |-> 0, docs |-> {}]

NoDeletion == [pc |-> "idle", ix |-> 0, path |-> ""]

\* The codeGraph of an initialize() that returned none.
NoGraph == [defined |-> FALSE, nodes |-> {}]

\* The workspace folder before its first index build.
NoIndex == [exists |-> FALSE, files |-> {}]

\* An input of the client, counted against MaxRequests.
Counted == requests < MaxRequests /\ requests' = requests + 1

LSPServerInit ==
  /\ vectorStore = 0 /\ codeGraph = 0 /\ indexer = 0 /\ queue = 0
  /\ fileEventHandler = NoHandler
  /\ registered = FALSE
  /\ indexerSettings \in {f \in Filters : ~Malformed(f)}
  /\ enabled \in BOOLEAN
  /\ instances = 0
  /\ init = [pc |-> "start", caller |-> "onInitialized", result |-> TRUE,
              graph |-> NoGraph]
  /\ disk \in {NoIndex, [exists |-> TRUE, files |-> Paths]}
  /\ deleting = 0
  /\ gNodes = [g \in Gens |-> {}]
  /\ ixFilter = [g \in Gens |-> ""]
  /\ ixCache = [g \in Gens |-> EmptyCache]
  /\ ixSyncing = [g \in Gens |-> FALSE]
  /\ qPending = [g \in Gens |-> {}]
  /\ qState = [g \in Gens |-> "Empty"]
  /\ qDisposed = [g \in Gens |-> FALSE]
  /\ flush = [g \in Gens |-> {}]
  /\ build = [k \in Builds |-> IdleBuild]
  /\ getIndexCall = NoCall
  /\ getEmbeddingsCall = NoRetrieval
  /\ deleteFileCall = NoDeletion
  /\ requests = 0
  /\ event = NoEvent

----------------------------------------------------------------------------
(* Store (spec.md 2, 3, 7): one persisted index per workspace folder.      *)

\* Store.createIndex: creates the index when there is none; idempotent.
createIndex(d) == [d EXCEPT !.exists = TRUE]

\* Store.deleteIndex, at its completion: the persisted index is removed.
deleteIndex(d) == NoIndex

\* Store.indexExists.
indexExists(d) == d.exists

\* The code graph kept with the persisted index: a node for every indexed
\* file (spec.md 3).
loadCodeGraph(d) == [defined |-> TRUE, nodes |-> d.files]

\* Line 111: what initialize() may resolve with.  The handler destructures
\* {result, codeGraph} and tests result only (line 112); codeGraph is
\* assigned as it comes (line 116), a graph or undefined.
InitializeResults(d) ==
  [result : BOOLEAN, codeGraph : {NoGraph, loadCodeGraph(d)}]

----------------------------------------------------------------------------
(* postInitialize, lines 103-140, cut at its awaits.                       *)

\* Lines 116-135: run once initialize() (and the failure notice) resolved.
\* The server now references instance g.  Of the instance it replaces the
\* model keeps what can still be read: the hash cache while its queue's
\* batch is in flight.  Its graph, filter and syncing flag were reachable
\* through this.codeGraph and this.indexer only, and are dropped.
\* graph: the codeGraph that initialize() returned (line 116).
BuildInstance(g, graph) ==
  /\ codeGraph' = IF graph.defined THEN g ELSE 0
  /\ indexer' = g
  /\ queue' = g
  /\ gNodes' = [h \in Gens |->
                 IF h = g THEN graph.nodes
                 ELSE IF h = getEmbeddingsCall.graph THEN gNodes[h] ELSE {}]
  /\ ixFilter' = [h \in Gens |-> IF h = g THEN indexerSettings ELSE ""]
  /\ ixSyncing' = [h \in Gens |-> FALSE]
  /\ ixCache' = [h \in Gens |->
                  IF h # g /\ qState[h] = "Flushing" THEN ixCache[h] ELSE EmptyCache]

\* Lines 104-111: a fresh Store replaces this.vectorStore, initialize() starts.
StartPostInitialize(caller) ==
  /\ instances' = instances + 1
  /\ vectorStore' = instances + 1
  /\ init' = [pc |-> "initialize", caller |-> caller, result |-> TRUE,
               graph |-> NoGraph]

\* The end of postInitialize and what its caller does next: onInitialized
\* (lines 235-244) builds the file event handler and registers the handlers,
\* the deleteIndex handler (line 372) returns.
FinishPostInitialize ==
  /\ init' = [init EXCEPT !.pc = "done", !.result = TRUE]
  /\ IF init.caller = "onInitialized"
       THEN /\ fileEventHandler' = [queue |-> queue, filter |-> indexerSettings,
                                    live |-> TRUE]
            /\ registered' = TRUE
            /\ event' = NoEvent
       ELSE /\ UNCHANGED <<fileEventHandler, registered>>
            /\ event' = [type |-> "deleteIndexDone"]

\* postInitialize threw: onInitialized logs it (line 246) and registers
\* nothing; the deleteIndex request fails.
FailPostInitialize ==
  /\ init' = [init EXCEPT !.pc = "failed", !.graph = NoGraph]
  /\ UNCHANGED <<fileEventHandler, registered>>
  /\ event' = NoEvent

\* onInitialized, line 233.
OnInitialized ==
  /\ init.pc = "start"
  /\ StartPostInitialize("onInitialized")
  /\ event' = NoEvent
  /\ UNCHANGED <<codeGraph, indexer, queue, fileEventHandler, registered,
                 indexerSettings, enabled, disk, deleting, gNodes,
                 ixFilter, ixCache, ixSyncing, queueVars, build, getIndexCall, requests,
                 callVars, writerVars, chatVars>>

\* Line 111 resolves with {result, codeGraph}, lines 112-135; or it
\* rejects, and postInitialize throws.
InitializeDone ==
  /\ init.pc = "initialize"
  /\ \/ \E r \in InitializeResults(disk) :
          /\ IF r.result
               THEN /\ BuildInstance(vectorStore, r.codeGraph)
                    /\ init' = [init EXCEPT !.pc = "details", !.result = TRUE]
                    /\ event' = NoEvent
               ELSE /\ init' = [init EXCEPT !.pc = "notify", !.result = FALSE,
                                            !.graph = r.codeGraph]
                    /\ event' = [type |-> "failedLoadingStore"]
                    /\ UNCHANGED <<codeGraph, indexer, queue, instanceVars>>
          /\ UNCHANGED <<fileEventHandler, registered>>
     \/ /\ FailPostInitialize
        /\ UNCHANGED <<codeGraph, indexer, queue, instanceVars>>
  /\ UNCHANGED <<vectorStore, indexerSettings,
                 enabled, instances, disk, deleting, queueVars, build,
                 getIndexCall, requests,
                 callVars, writerVars, chatVars>>

\* Line 113 resolves (or the client rejects the request); lines 116-135.
NotifyDone ==
  /\ init.pc = "notify"
  /\ \E ok \in BOOLEAN :
       IF ok
         THEN /\ BuildInstance(vectorStore, init.graph)
              /\ init' = [init EXCEPT !.pc = "details", !.graph = NoGraph]
              /\ event' = NoEvent
              /\ UNCHANGED <<fileEventHandler, registered>>
         ELSE /\ FailPostInitialize
              /\ UNCHANGED <<codeGraph, indexer, queue, instanceVars>>
  /\ UNCHANGED <<vectorStore, indexerSettings, enabled, instances, disk,
                 deleting, queueVars, build, getIndexCall, requests,
                 callVars, writerVars, chatVars>>

\* Line 135 resolves, lines 137-139; or it rejects, and postInitialize
\* throws.
DetailsDone ==
  /\ init.pc = "details"
  /\ \E ok \in BOOLEAN :
       IF ~ok
         THEN FailPostInitialize
         ELSE IF enabled
                THEN /\ init' = [init EXCEPT !.pc = "createIndex"]
                     /\ event' = NoEvent
                     /\ UNCHANGED <<fileEventHandler, registered>>
                ELSE FinishPostInitialize
  /\ UNCHANGED <<serverVars, indexerSettings, enabled, instances, disk,
                 deleting, gNodes, ixFilter, ixCache, ixSyncing,
                 queueVars, build, getIndexCall, requests,
                 callVars, writerVars, chatVars>>

\* Line 138 resolves or throws (the store cannot create its index).
InitCreateIndexDone ==
  /\ init.pc = "createIndex"
  /\ \E ok \in BOOLEAN :
       IF ok
         THEN /\ disk' = createIndex(disk)
              /\ FinishPostInitialize
         ELSE /\ FailPostInitialize
              /\ UNCHANGED disk
  /\ UNCHANGED <<serverVars, indexerSettings, enabled, instances, deleting,
                 gNodes, ixFilter, ixCache, ixSyncing, queueVars,
                 build, getIndexCall, requests,
                 callVars, writerVars, chatVars>>

----------------------------------------------------------------------------
(* Indexer (spec.md 4.3).                                                  *)

\* The scan of processDocuments: the paths its inclusion filter accepts.
Scan(i, uris) == {u \in uris : Accepts(ixFilter[i], UriToPath(u))}

\* The hash-cache test of processDocuments.
CacheHit(i, p, forceFull) == ~forceFull /\ ixCache[i][p] = Hash(p)

\* Whether the graph, and the cache, of Indexer i can still be read (see
\* BuildInstance); a write to what cannot, or to a graph that is undefined,
\* is not recorded.
GraphRead(i) == i = codeGraph \/ i = getEmbeddingsCall.graph

CacheRead(i) == i = indexer \/ qState[i] = "Flushing"

\* One file of a batch of Indexer i: skipped on a cache hit, skipped when its
\* parse or embedding fails (ok = FALSE), else upserted into the graph and
\* the store, and only then cached.
ProcessFile(i, u, forceFull, ok) ==
  LET p == UriToPath(u) IN
  IF CacheHit(i, p, forceFull) \/ ~ok
    THEN UNCHANGED indexVars
    ELSE /\ gNodes' = [gNodes EXCEPT ![i] = IF GraphRead(i) THEN @ \cup {p} ELSE @]
         /\ disk' = [disk EXCEPT !.files = @ \cup {p}]
         /\ ixCache' = [ixCache EXCEPT ![i][p] = IF CacheRead(i) THEN Hash(p) ELSE @]

\* Indexer.deleteFile: the graph node, the vector entries, the file record.
DeleteFile(i, p) ==
  /\ gNodes' = [gNodes EXCEPT ![i] = IF GraphRead(i) THEN @ \ {p} ELSE @]
  /\ disk' = [disk EXCEPT !.files = @ \ {p}]
  /\ ixCache' = [ixCache EXCEPT ![i][p] = IF CacheRead(i) THEN NoHash ELSE @]

\* Indexer.setInclusionFilter followed by Indexer.clearCache (lines 338-339):
\* a malformed filter is rejected by a throw, which ends the handler.
SetFilterAndClearCache(i, filter) ==
  IF Malformed(filter)
    THEN UNCHANGED <<ixFilter, ixCache>>
    ELSE /\ ixFilter' = [ixFilter EXCEPT ![i] = filter]
         /\ ixCache' = [ixCache EXCEPT ![i] = EmptyCache]

----------------------------------------------------------------------------
(* DocumentQueue (spec.md 4.4) and LSPFileEventHandler.                    *)

\* DocumentQueue.enqueue: a no-op once disposed; arms the debounce timer.
Enqueue(q, u) ==
  IF qDisposed[q]
    THEN UNCHANGED <<qPending, qState>>
    ELSE /\ qPending' = [qPending EXCEPT ![q] = @ \cup {u}]
         /\ qState' = [qState EXCEPT ![q] = IF @ = "Empty" THEN "Pending" ELSE @]

\* DocumentQueue.dispose: cancels the timer, drops the unflushed paths.
Dispose(q) ==
  /\ qDisposed' = [qDisposed EXCEPT ![q] = TRUE]
  /\ qPending' = [qPending EXCEPT ![q] = {}]
  /\ qState' = [qState EXCEPT ![q] = IF @ = "Pending" THEN "Empty" ELSE @]

\* A file is saved with new text; the file event handler enqueues its URI
\* into the queue it was constructed with when its filter accepts the path.
FileSaved ==
  /\ Counted
  /\ fileEventHandler.live
  /\ \E p \in Paths :
       IF Accepts(fileEventHandler.filter, p)
         THEN Enqueue(fileEventHandler.queue, filePathToUri(p))
         ELSE UNCHANGED <<qPending, qState>>
  /\ event' = NoEvent
  /\ UNCHANGED <<serverVars, fileEventHandler, registered, indexerSettings,
                 enabled, instances, init, disk, deleting, gNodes, ixFilter,
                 ixCache, ixSyncing, qDisposed, flush, build, getIndexCall,
                 callVars, writerVars, chatVars>>

\* The debounce timer fires: the pending paths go to the queue's Indexer as
\* one batch, processDocuments(paths, false).
QueueFlush ==
  \E q \in Gens :
    /\ qState[q] = "Pending"
    /\ ~qDisposed[q]
    /\ qState' = [qState EXCEPT ![q] = "Flushing"]
    /\ flush' = [flush EXCEPT ![q] = Scan(q, qPending[q])]
    /\ qPending' = [qPending EXCEPT ![q] = {}]
    /\ ixSyncing' = [ixSyncing EXCEPT ![q] = TRUE]
    /\ event' = NoEvent
    /\ UNCHANGED <<serverVars, fileEventHandler, registered, indexerSettings,
                   enabled, instances, init, disk, deleting, gNodes,
                   ixFilter, ixCache, qDisposed, build, getIndexCall, requests,
                 callVars, writerVars, chatVars>>

\* The flushed batch processes one file.
FlushStep ==
  \E q \in Gens :
    /\ qState[q] = "Flushing"
    /\ \E u \in flush[q], ok \in BOOLEAN :
         /\ ProcessFile(q, u, FALSE, ok)
         /\ flush' = [flush EXCEPT ![q] = @ \ {u}]
    /\ event' = NoEvent
    /\ UNCHANGED <<serverVars, fileEventHandler, registered, indexerSettings,
                   enabled, instances, init, deleting, ixFilter,
                   ixSyncing, qPending, qState, qDisposed, build, getIndexCall, requests,
                 callVars, writerVars, chatVars>>

\* The flushed batch resolves: the queue takes up what arrived meanwhile.
FlushDone ==
  \E q \in Gens :
    /\ qState[q] = "Flushing"
    /\ flush[q] = {}
    /\ ixSyncing' = [ixSyncing EXCEPT ![q] = FALSE]
    /\ ixCache' = [ixCache EXCEPT ![q] = IF q = indexer THEN @ ELSE EmptyCache]
    /\ qState' = [qState EXCEPT ![q] =
                    IF qPending[q] # {} /\ ~qDisposed[q] THEN "Pending" ELSE "Empty"]
    /\ event' = NoEvent
    /\ UNCHANGED <<serverVars, fileEventHandler, registered, indexerSettings,
                   enabled, instances, init, disk, deleting, gNodes,
                   ixFilter, qPending, qDisposed, flush, build, getIndexCall, requests,
                 callVars, writerVars, chatVars>>

----------------------------------------------------------------------------
(* The request handlers registered by addEvents, lines 256-448.            *)

\* VectorQuery.retrieveDocumentsWithRelatedCode: the stored entries nearest
\* to the query (k = 3 covers the workspace), expanded through the graph.
\* g = 0: the graph handed over is undefined, no hit is expanded.
retrieveDocumentsWithRelatedCode(g, d) ==
  d.files \cup (IF g = 0 THEN {} ELSE gNodes[g] \cap d.files)

\* "wingman/getEmbeddings", lines 412-447: the value the handler returns.
\* outcome: what the two awaited retrievals did.
getEmbeddingsResponse_NoCatch(outcome, docs) ==
  IF outcome = "ok"
    THEN [threw |-> FALSE, codeDocs |-> docs, projectDetails |-> "description"]
    ELSE [threw |-> TRUE, codeDocs |-> {}, projectDetails |-> ""]

getEmbeddingsResponse(outcome, docs) ==
  IF outcome = "ok"
    THEN [threw |-> FALSE, codeDocs |-> docs, projectDetails |-> "description"]
    ELSE [threw |-> FALSE, codeDocs |-> EmptyResult.codeDocs,
          projectDetails |-> EmptyResult.projectDetails]

\* Lines 412-426: the retrieval is started with this.codeGraph and
\* this.vectorStore as they are at the request.
GetEmbeddingsReq ==
  /\ Counted
  /\ registered
  /\ getEmbeddingsCall.pc = "idle"
  /\ getEmbeddingsCall' = [pc |-> "retrieve", graph |-> codeGraph, docs |-> {}]
  /\ event' = NoEvent
  /\ UNCHANGED <<serverVars, fileEventHandler, registered, indexerSettings,
                 enabled, instances, init, disk, deleting, gNodes,
                 ixFilter, ixCache, ixSyncing, queueVars, build, getIndexCall,
                 deleteFileCall, writerVars, chatVars>>

\* The end of a getEmbeddings request: its response; the graph of a
\* superseded instance that only the retrieval held is dropped.
GetEmbeddingsReturn(outcome, docs) ==
  /\ getEmbeddingsCall' = NoRetrieval
  /\ gNodes' = [h \in Gens |-> IF h = codeGraph THEN gNodes[h] ELSE {}]
  /\ event' = [type |-> "getEmbeddings", failed |-> outcome # "ok",
               response |-> getEmbeddingsResponse(outcome, docs)]

\* Line 420 resolves with the documents, and retrieveProjectDetails() is
\* called on this.projectDetails (line 429); or it throws, and the catch of
\* line 439 leads to the return of line 443.
GetEmbeddingsDocsDone ==
  /\ getEmbeddingsCall.pc = "retrieve"
  /\ \E ok \in BOOLEAN :
       IF ok
         THEN /\ getEmbeddingsCall' =
                   [getEmbeddingsCall EXCEPT
                      !.pc = "details",
                      !.docs = retrieveDocumentsWithRelatedCode(
                                 getEmbeddingsCall.graph, disk)]
              /\ event' = NoEvent
              /\ UNCHANGED gNodes
         ELSE GetEmbeddingsReturn("queryThrows", {})
  /\ UNCHANGED <<serverVars, fileEventHandler, registered, indexerSettings,
                 enabled, instances, init, disk, deleting,
                 ixFilter, ixCache, ixSyncing, queueVars, build, getIndexCall,
                 deleteFileCall, requests, writerVars, chatVars>>

\* Line 429 resolves or throws; lines 435-438 or 443-446.
GetEmbeddingsDetailsDone ==
  /\ getEmbeddingsCall.pc = "details"
  /\ \E outcome \in {"ok", "detailsThrow"} :
       GetEmbeddingsReturn(outcome, getEmbeddingsCall.docs)
  /\ UNCHANGED <<serverVars, fileEventHandler, registered, indexerSettings,
                 enabled, instances, init, disk, deleting,
                 ixFilter, ixCache, ixSyncing, queueVars, build, getIndexCall,
                 deleteFileCall, requests, writerVars, chatVars>>

\* Lines 311-313: the keys of the symbol table of this.codeGraph, none when
\* it is undefined.
SymbolTableKeys == IF codeGraph = 0 THEN {} ELSE gNodes[codeGraph]

\* "wingman/getIndex", line 309: indexExists() is called on this.vectorStore.
GetIndexReq ==
  /\ Counted
  /\ registered
  /\ getIndexCall.pc = "idle"
  /\ getIndexCall' = [pc |-> "indexExists", store |-> vectorStore]
  /\ event' = NoEvent
  /\ UNCHANGED <<serverVars, fileEventHandler, registered, indexerSettings,
                 enabled, instances, init, disk, deleting, gNodes,
                 ixFilter, ixCache, ixSyncing, queueVars, build,
                 callVars, writerVars, chatVars>>

\* Lines 309-314: indexExists() resolves, then this.indexer and
\* this.codeGraph are read and the response is returned.
GetIndexReturn ==
  /\ getIndexCall.pc = "indexExists"
  /\ getIndexCall' = NoCall
  /\ event' = [type |-> "getIndex",
               exists |-> indexExists(disk),
               processing |-> ixSyncing[indexer],
               files |-> SymbolTableKeys,
               store |-> getIndexCall.store,
               indexer |-> indexer,
               graph |-> codeGraph]
  /\ UNCHANGED <<serverVars, fileEventHandler, registered, indexerSettings,
                 enabled, instances, init, disk, deleting, gNodes,
                 ixFilter, ixCache, ixSyncing, queueVars, build, requests,
                 callVars, writerVars, chatVars>>

IndexerSettingsReq_Retroactive ==
  /\ Counted
  /\ registered
  /\ \E filter \in Filters :
       /\ indexerSettings' = filter
       /\ fileEventHandler' = [queue |-> queue, filter |-> filter,
                               live |-> TRUE]
       /\ SetFilterAndClearCache(indexer, filter)
       /\ gNodes' = [gNodes EXCEPT ![indexer] = {p \in @ : Accepts(filter, p)}]
       /\ disk' = [disk EXCEPT !.files = {p \in @ : Accepts(filter, p)}]
       /\ event' = [type |-> IF Malformed(filter) THEN "indexerSettingsThrows"
                                                  ELSE "indexerSettingsReturn"]
  /\ UNCHANGED <<serverVars, registered, enabled, instances, init, deleting,
                 ixSyncing, queueVars, build, getIndexCall,
                 callVars, writerVars, chatVars>>

\* "wingman/indexerSettings", lines 317-341; the handler has no await.  The
\* throw of setInclusionFilter on a malformed filter (line 338) ends it.
IndexerSettingsReq ==
  /\ Counted
  /\ registered
  /\ \E filter \in Filters :
       /\ indexerSettings' = filter
       /\ fileEventHandler' = [queue |-> queue, filter |-> filter,
                               live |-> TRUE]
       /\ SetFilterAndClearCache(indexer, filter)
       /\ event' = [type |-> IF Malformed(filter) THEN "indexerSettingsThrows"
                                                  ELSE "indexerSettingsReturn"]
  /\ UNCHANGED <<serverVars, registered, enabled, instances, init, disk,
                 deleting, gNodes, ixSyncing, queueVars, build,
                 getIndexCall,
                 callVars, writerVars, chatVars>>

\* "wingman/fullIndexBuild", lines 345-360: the enabled test, then
\* createIndex() is called on this.vectorStore.  The request takes the first
\* free slot.
FullIndexBuildReq ==
  /\ Counted
  /\ registered
  /\ \E k \in Builds, files \in SUBSET Paths :
       /\ build[k].pc = "idle"
       /\ \A j \in 1..(k - 1) : build[j].pc # "idle"
       /\ IF ~enabled
            THEN /\ event' = [type |-> "fullIndexBuildReturn",
                              createIndex |-> "not called",
                              processDocuments |-> FALSE]
                 /\ UNCHANGED build
            ELSE /\ build' = [build EXCEPT ![k] =
                       [IdleBuild EXCEPT !.pc = "createIndex", !.files = files,
                                         !.store = vectorStore]]
                 /\ event' = NoEvent
  /\ UNCHANGED <<serverVars, fileEventHandler, registered, indexerSettings,
                 enabled, instances, init, disk, deleting, gNodes,
                 ixFilter, ixCache, ixSyncing, queueVars, getIndexCall,
                 callVars, writerVars, chatVars>>

BuildArguments_NotForced(files) ==
  [uris |-> {filePathToUri(f) : f \in files}, forceFull |-> FALSE]

\* Line 361: the arguments of the processDocuments call.
BuildArguments(files) ==
  [uris |-> {filePathToUri(f) : f \in files}, forceFull |-> TRUE]

\* Line 360 resolves or throws; line 361 calls processDocuments on
\* this.indexer, or the catch of line 362 logs and the handler returns.
BuildCreateIndexDone ==
  \E k \in Builds, ok \in BOOLEAN :
    /\ build[k].pc = "createIndex"
    /\ IF ok
         THEN LET args == BuildArguments(build[k].files) IN
              /\ disk' = createIndex(disk)
              /\ build' = [build EXCEPT ![k].pc = "processDocuments",
                                        ![k].ix = indexer,
                                        ![k].handed = args.uris,
                                        ![k].forceFull = args.forceFull,
                                        ![k].todo = Scan(indexer, args.uris)]
              /\ ixSyncing' = [ixSyncing EXCEPT ![indexer] = TRUE]
              /\ event' = NoEvent
         ELSE /\ build' = [build EXCEPT ![k] = IdleBuild]
              /\ event' = [type |-> "fullIndexBuildReturn",
                           createIndex |-> "threw",
                           processDocuments |-> FALSE]
              /\ UNCHANGED <<disk, ixSyncing>>
    /\ UNCHANGED <<serverVars, fileEventHandler, registered, indexerSettings,
                   enabled, instances, init, deleting, gNodes,
                   ixFilter, ixCache, queueVars, getIndexCall, requests,
                 callVars, writerVars, chatVars>>

\* The batch of a full build processes one file.
BuildStep ==
  \E k \in Builds :
    /\ build[k].pc = "processDocuments"
    /\ \E u \in build[k].todo, ok \in BOOLEAN :
         /\ ProcessFile(build[k].ix, u, build[k].forceFull, ok)
         /\ build' = [build EXCEPT
              ![k].todo = @ \ {u},
              ![k].skipped = IF CacheHit(build[k].ix, UriToPath(u), build[k].forceFull)
                               THEN @ \cup {u} ELSE @]
    /\ event' = NoEvent
    /\ UNCHANGED <<serverVars, fileEventHandler, registered, indexerSettings,
                   enabled, instances, init, deleting, ixFilter,
                   ixSyncing, queueVars, getIndexCall, requests,
                 callVars, writerVars, chatVars>>

\* The batch of a full build resolves and the handler returns.
BuildDone ==
  \E k \in Builds :
    /\ build[k].pc = "processDocuments"
    /\ build[k].todo = {}
    /\ ixSyncing' = [ixSyncing EXCEPT ![build[k].ix] = FALSE]
    /\ build' = [build EXCEPT ![k] = IdleBuild]
    /\ event' = [type |-> "fullIndexBuildReturn",
                 createIndex |-> "resolved", processDocuments |-> TRUE]
    /\ UNCHANGED <<serverVars, fileEventHandler, registered, indexerSettings,
                   enabled, instances, init, disk, deleting, gNodes,
                   ixFilter, ixCache, queueVars, getIndexCall, requests,
                 callVars, writerVars, chatVars>>

\* "wingman/deleteIndex", lines 368-372: deleteIndex() is started and not
\* awaited, the queue is disposed, postInitialize starts.  One
\* postInitialize runs at a time.
DeleteIndexReq ==
  /\ Counted
  /\ registered
  /\ init.pc \in {"done", "failed"}
  /\ instances < MaxInstances
  /\ deleting' = deleting + 1
  /\ Dispose(queue)
  /\ StartPostInitialize("deleteIndex")
  /\ event' = NoEvent
  /\ UNCHANGED <<codeGraph, indexer, queue, fileEventHandler, registered,
                 indexerSettings, enabled, disk, gNodes, ixFilter,
                 ixCache, ixSyncing, flush, build, getIndexCall,
                 callVars, writerVars, chatVars>>

\* The deleteIndex() started at line 370 completes.
StoreDeleteDone ==
  /\ deleting > 0
  /\ deleting' = deleting - 1
  /\ disk' = deleteIndex(disk)
  /\ event' = NoEvent
  /\ UNCHANGED <<serverVars, fileEventHandler, registered, indexerSettings,
                 enabled, instances, init, gNodes, ixFilter, ixCache,
                 ixSyncing, queueVars, build, getIndexCall, requests,
                 callVars, writerVars, chatVars>>

\* "wingman/deleteFileFromIndex", lines 383-384: deleteFile() is called on
\* this.indexer.
DeleteFileFromIndexReq ==
  /\ Counted
  /\ registered
  /\ deleteFileCall.pc = "idle"
  /\ \E p \in Paths :
       deleteFileCall' = [pc |-> "deleteFile", ix |-> indexer, path |-> p]
  /\ event' = NoEvent
  /\ UNCHANGED <<serverVars, fileEventHandler, registered, indexerSettings,
                 enabled, instances, init, disk, deleting, gNodes, ixFilter,
                 ixCache, ixSyncing, queueVars, build, getIndexCall,
                 getEmbeddingsCall, writerVars, chatVars>>

\* Line 384 resolves: the Indexer has deleted the file; the handler returns.
DeleteFileFromIndexDone ==
  /\ deleteFileCall.pc = "deleteFile"
  /\ DeleteFile(deleteFileCall.ix, deleteFileCall.path)
  /\ deleteFileCall' = NoDeletion
  /\ event' = [type |-> "deleteFileFromIndexReturn"]
  /\ UNCHANGED <<serverVars, fileEventHandler, registered, indexerSettings,
                 enabled, instances, init, deleting, ixFilter,
                 ixSyncing, queueVars, build, getIndexCall,
                 getEmbeddingsCall, requests, writerVars, chatVars>>

----------------------------------------------------------------------------
(* CodeWriter.codeWriterStep, src/src/composer/tools/code-writer.ts.       *)

\* Number of files of state.plan.files, lines of a "Changes:" section.
MaxPlanLen == 2

MaxLines == 1

SeqsUpTo(S, n) == UNION {[1..k -> S] : k \in 0..n}

\* The paths of the plan's files; a response may also name another path.
PlanPaths == {"x.ts", "y.ts"}

OtherPath == "z.ts"

\* state.plan.files as the step receives it: undefined, or a list of file
\* objects, the same path possibly twice.
Plans ==
  {[defined |-> FALSE, files |-> <<>>]}
    \cup {[defined |-> TRUE, files |-> fs] :
            fs \in SeqsUpTo([path : PlanPaths, changes : {<<>>}], MaxPlanLen)}

\* Lines 305-311: the list the loop runs over.
BLANK == [path |-> "BLANK", changes |-> <<>>]

Scope(pl) == IF pl.defined THEN pl.files ELSE <<BLANK>>

\* The text of a model response: whether it has a FILE section, the text of
\* its "Path:" line if any, the lines after "Changes:" (as characters), and
\* whether its STEPS section holds a step.
NoPathLine == "no Path: line"

ChangeLines ==
  {<<"-", " ", "e">>, <<" ", "-", " ", "e">>, <<"-", " ">>, <<"n">>}

Responses ==
  [fileSection : BOOLEAN,
   path : PlanPaths \cup {OtherPath, NoPathLine},
   lines : SeqsUpTo(ChangeLines, MaxLines),
   step : BOOLEAN]

\* String.prototype.trim on a line of characters.
RECURSIVE trim(_)
trim(l) ==
  IF l = <<>> THEN l
  ELSE IF Head(l) = " " THEN trim(Tail(l))
  ELSE IF l[Len(l)] = " " THEN trim(SubSeq(l, 1, Len(l) - 1))
  ELSE l

startsWithDash(l) == Len(l) >= 2 /\ l[1] = "-" /\ l[2] = " "

\* Lines 98-102: trim, keep the lines that start with "- ", slice(2).
RECURSIVE parseChanges(_)
parseChanges(ls) ==
  IF ls = <<>> THEN <<>>
  ELSE LET l == trim(Head(ls))
           rest == parseChanges(Tail(ls))
       IN IF startsWithDash(l) THEN <<SubSeq(l, 3, Len(l))>> \o rest ELSE rest

\* parseResponse, lines 35-107.
parseResponse(r) ==
  [steps |-> IF r.step THEN <<"step">> ELSE <<>>,
   file |-> IF r.fileSection
              THEN [path |-> IF r.path = NoPathLine THEN "" ELSE r.path,
                    changes |-> parseChanges(r.lines)]
              ELSE [path |-> "", changes |-> <<>>]]

NoResult == [steps |-> <<>>, file |-> [path |-> "", changes |-> <<>>]]

\* state.plan?.files?.find(f => f.path === path), line 400: the index of the
\* first such file object, 0 for undefined.
find(pl, path) ==
  LET hits == {i \in 1..Len(pl.files) : pl.files[i].path = path}
  IN IF ~pl.defined \/ hits = {} THEN 0
     ELSE CHOOSE i \in hits : \A j \in hits : i <= j

\* The file objects the local files list holds.
Collected(pl, fs) == [k \in 1..Len(fs) |-> pl.files[fs[k]]]

Collects_NoDuplicateTest(pl, fs, res) ==
  Len(res.file.changes) > 0

\* Lines 386-387 and 399: the test that guards the collection of a file.
Collects(pl, fs, res) ==
  /\ ~\E k \in 1..Len(fs) : pl.files[fs[k]].path = res.file.path
  /\ Len(res.file.changes) > 0

WriterIdle ==
  /\ plan = [defined |-> FALSE, files |-> <<>>]
  /\ wpc = "idle"
  /\ cursor = 1
  /\ wResult = NoResult
  /\ wFiles = <<>>
  /\ steps = <<>>
  /\ invoked = <<>>
  /\ dispatched = <<>>

\* Lines 303-304: the step is called with a state.
WriterInit ==
  /\ plan \in Plans
  /\ wpc = "loop"
  /\ cursor = 1
  /\ wResult = NoResult
  /\ wFiles = <<>>
  /\ steps = <<>>
  /\ invoked = <<>>
  /\ dispatched = <<>>

\* Lines 305-382: the prompt is built and the model is invoked with the
\* file in scope; the step awaits the answer (line 367).
WriterInvoke ==
  /\ wpc = "loop"
  /\ cursor <= Len(Scope(plan))
  /\ invoked' = Append(invoked, Scope(plan)[cursor].path)
  /\ wpc' = "invoke"
  /\ UNCHANGED <<plan, cursor, wResult, wFiles, steps, dispatched,
                 lspVars, chatVars>>

\* Lines 367-397: the model answers, the response is parsed, its steps are
\* gathered, "composer-manual-steps" is dispatched and awaited (line 391);
\* or the invocation rejects and the step ends with its error, there being
\* no try around the await.
WriterAnswer ==
  /\ wpc = "invoke"
  /\ \/ /\ \E r \in Responses :
            /\ wResult' = parseResponse(r)
            /\ steps' = steps \o parseResponse(r).steps
        /\ dispatched' = Append(dispatched,
                                [name |-> "composer-manual-steps", at |-> cursor])
        /\ wpc' = "collect"
     \/ /\ wpc' = "InvokeError"
        /\ UNCHANGED <<wResult, steps, dispatched>>
  /\ UNCHANGED <<plan, cursor, wFiles, invoked, lspVars, chatVars>>

\* Lines 391-412: the dispatch of line 391 resolves; the file the response
\* names is collected and "composer-plan-files" is dispatched and awaited
\* (line 408), or it is not collected and the loop goes on.  Or the dispatch
\* of line 391 rejects and the step ends with its error.
WriterCollect ==
  /\ wpc = "collect"
  /\ \/ LET stateFile == find(plan, wResult.file.path) IN
        IF Collects(plan, wFiles, wResult) /\ stateFile # 0
          THEN /\ plan' = [plan EXCEPT
                             !.files[stateFile].changes = wResult.file.changes]
               /\ wFiles' = Append(wFiles, stateFile)
               /\ dispatched' = Append(dispatched,
                                       [name |-> "composer-plan-files",
                                        at |-> cursor])
               /\ wpc' = "plan-files"
               /\ UNCHANGED cursor
          ELSE /\ cursor' = cursor + 1
               /\ wpc' = "loop"
               /\ UNCHANGED <<plan, wFiles, dispatched>>
     \/ /\ wpc' = "DispatchError"
        /\ UNCHANGED <<plan, cursor, wFiles, dispatched>>
  /\ UNCHANGED <<wResult, steps, invoked, lspVars, chatVars>>

\* Lines 408-413: the dispatch of line 408 resolves and the loop goes on;
\* or it rejects, the file already collected, and the step ends with its
\* error.
WriterPlanFilesDone ==
  /\ wpc = "plan-files"
  /\ \/ /\ cursor' = cursor + 1
        /\ wpc' = "loop"
     \/ /\ wpc' = "DispatchError"
        /\ UNCHANGED cursor
  /\ UNCHANGED <<plan, wResult, wFiles, steps, invoked, dispatched,
                 lspVars, chatVars>>

WriterFinish_DoneBeforeTest ==
  /\ wpc = "loop"
  /\ cursor > Len(Scope(plan))
  /\ dispatched' = Append(dispatched, [name |-> "composer-done", at |-> cursor])
  /\ wpc' = IF wFiles = <<>> THEN "NoFilesChangedError" ELSE "done"
  /\ UNCHANGED <<plan, cursor, wResult, wFiles, steps, invoked, lspVars, chatVars>>

\* Lines 415-427: NoFilesChangedError, or "composer-done" is dispatched and
\* awaited (line 425).
WriterFinish ==
  /\ wpc = "loop"
  /\ cursor > Len(Scope(plan))
  /\ IF wFiles = <<>>
       THEN /\ wpc' = "NoFilesChangedError"
            /\ UNCHANGED dispatched
       ELSE /\ dispatched' = Append(dispatched,
                                    [name |-> "composer-done", at |-> cursor])
            /\ wpc' = "done"
  /\ UNCHANGED <<plan, cursor, wResult, wFiles, steps, invoked, lspVars, chatVars>>

\* Lines 425-431: the dispatch of line 425 resolves and the step returns
\* the plan; or it rejects and the step ends with its error, the plan not
\* returned.
WriterReturn ==
  /\ wpc = "done"
  /\ wpc' \in {"returned", "DispatchError"}
  /\ UNCHANGED <<plan, cursor, wResult, wFiles, steps, invoked, dispatched,
                 lspVars, chatVars>>

\* Lines 419-423 and 429-431: the plan the step returns.
updatedPlan == [files |-> Collected(plan, wFiles), steps |-> steps]

----------------------------------------------------------------------------
(* ChatInput, src/views-ui/src/Chat/features/Chat/ChatInput.tsx.           *)

\* Number of characters the textarea holds.
MaxChars == 3

\* The keys of a keydown event: Enter, a printing key, a non-printing key.
Keys == {"Enter", "a", "Escape"}

NoKey == [key |-> "none", shiftKey |-> FALSE]

NoChatEvent == [type |-> "none"]

ChatIdle ==
  /\ value = <<>>
  /\ loading = FALSE
  /\ keyDefault = NoKey
  /\ chatEvent = NoChatEvent

handleUserInput_NoEmptyTest(key, shiftKey, v) ==
  IF key = "Enter" /\ ~shiftKey
    THEN [submitted |-> TRUE, message |-> v, value |-> <<>>, prevented |-> TRUE]
    ELSE [submitted |-> FALSE, message |-> <<>>, value |-> v, prevented |-> FALSE]

\* handleUserInput, lines 27-46, on an event with this key and shiftKey whose
\* target holds the value v: whether onChatSubmitted is called and with what,
\* the target's value afterwards, whether preventDefault was called.
handleUserInput(key, shiftKey, v) ==
  IF key = "Enter" /\ ~shiftKey /\ v # <<>>
    THEN [submitted |-> TRUE, message |-> v, value |-> <<>>, prevented |-> TRUE]
    ELSE [submitted |-> FALSE, message |-> <<>>, value |-> v, prevented |-> FALSE]

\* What the browser's default action of a keydown puts into the textarea.
Typed(key) ==
  CASE key = "Enter" -> <<"\n">>
    [] key = "a" -> <<"a">>
    [] OTHER -> <<>>

\* The mount of the component with its props, lines 11-25.
ChatInit ==
  /\ value = <<>>
  /\ loading \in BOOLEAN
  /\ keyDefault = NoKey
  /\ chatEvent = NoChatEvent

\* onKeyDown of the textarea, line 67.
ChatKeyDown ==
  /\ keyDefault = NoKey
  /\ \E key \in Keys, shiftKey \in BOOLEAN :
       LET out == handleUserInput(key, shiftKey, value) IN
       /\ out.prevented \/ Len(value) + Len(Typed(key)) <= MaxChars
       /\ value' = out.value
       /\ keyDefault' = IF out.prevented THEN NoKey
                        ELSE [key |-> key, shiftKey |-> shiftKey]
       /\ chatEvent' = [type |-> "keydown", key |-> key, shiftKey |-> shiftKey,
                        loading |-> loading, before |-> value,
                        submitted |-> out.submitted, message |-> out.message]
  /\ UNCHANGED <<loading, lspVars, writerVars>>

\* The default action of a keydown that was not prevented.
ChatDefaultAction ==
  /\ keyDefault # NoKey
  /\ value' = value \o Typed(keyDefault.key)
  /\ keyDefault' = NoKey
  /\ chatEvent' = [type |-> "input"]
  /\ UNCHANGED <<loading, lspVars, writerVars>>

\* onClick of the send button, lines 72-85: rendered while not loading.
ChatClickSend ==
  /\ keyDefault = NoKey
  /\ ~loading
  /\ LET out == handleUserInput("Enter", FALSE, value) IN
     /\ value' = out.value
     /\ chatEvent' = [type |-> "click", key |-> "Enter", shiftKey |-> FALSE,
                      loading |-> loading, before |-> value,
                      submitted |-> out.submitted, message |-> out.message]
  /\ UNCHANGED <<loading, keyDefault, lspVars, writerVars>>

\* onClick of the cancel button, lines 87-95: rendered while loading.
ChatClickCancel ==
  /\ keyDefault = NoKey
  /\ loading
  /\ chatEvent' = [type |-> "cancel"]
  /\ UNCHANGED <<value, loading, keyDefault, lspVars, writerVars>>

\* The parent renders the component with another loading prop, line 12.
ChatSetLoading ==
  /\ keyDefault = NoKey
  /\ loading' = ~loading
  /\ chatEvent' = NoChatEvent
  /\ UNCHANGED <<value, keyDefault, lspVars, writerVars>>

----------------------------------------------------------------------------
(* The specifications.                                                     *)

\* The language server before "initialized", with one choice of its settings.
LSPServerIdle ==
  /\ LSPServerInit
  /\ indexerSettings = "**/*"
  /\ enabled
  /\ disk = NoIndex

Init == LSPServerInit /\ WriterIdle /\ ChatIdle

Next ==
  \/ OnInitialized
  \/ InitializeDone
  \/ NotifyDone
  \/ DetailsDone
  \/ InitCreateIndexDone
  \/ FileSaved
  \/ QueueFlush
  \/ FlushStep
  \/ FlushDone
  \/ GetEmbeddingsReq
  \/ GetEmbeddingsDocsDone
  \/ GetEmbeddingsDetailsDone
  \/ GetIndexReq
  \/ GetIndexReturn
  \/ IndexerSettingsReq
  \/ FullIndexBuildReq
  \/ BuildCreateIndexDone
  \/ BuildStep
  \/ BuildDone
  \/ DeleteIndexReq
  \/ StoreDeleteDone
  \/ DeleteFileFromIndexReq
  \/ DeleteFileFromIndexDone

Spec == Init /\ [][Next]_vars

\* One call of CodeWriter.codeWriterStep.
WriterStart == LSPServerIdle /\ WriterInit /\ ChatIdle

WriterNext ==
  \/ WriterInvoke
  \/ WriterAnswer
  \/ WriterCollect
  \/ WriterPlanFilesDone
  \/ WriterFinish
  \/ WriterReturn

WriterSpec == WriterStart /\ [][WriterNext]_vars

\* One mounted ChatInput.
ChatStart == LSPServerIdle /\ WriterIdle /\ ChatInit

ChatNext ==
  \/ ChatKeyDown
  \/ ChatDefaultAction
  \/ ChatClickSend
  \/ ChatClickCancel
  \/ ChatSetLoading

ChatSpec == ChatStart /\ [][ChatNext]_vars

----------------------------------------------------------------------------
(* The properties.                                                         *)

\* The processDocuments batches in flight: the flushed batch of a queue, the
\* batch of a full build.
RunningBatches ==
  {<<"flush", q>> : q \in {g \in Gens : qState[g] = "Flushing"}}
    \cup {<<"fullIndexBuild", k>> : k \in {b \in Builds : build[b].pc = "processDocuments"}}

\* C1: single-flight indexing: in every reachable state at most one
\* Indexer.processDocuments batch is executing, whatever the interleaving
\* of queue flushes and "wingman/fullIndexBuild" requests.
C1_SingleFlight == Cardinality(RunningBatches) <= 1

\* C2: when the "wingman/deleteIndex" request has completed, the vector
\* store holds no entries, this.codeGraph has no nodes and the Indexer's
\* hash cache is empty.
C2_DeleteIndexRestoresPreIndexState ==
  event.type = "deleteIndexDone" =>
    /\ disk.files = {}
    /\ SymbolTableKeys = {}
    /\ ixCache[indexer] = EmptyCache

\* C3: every "wingman/getEmbeddings" request completes with a response
\* object and no error reaches the caller; when a retrieval throws, the
\* response is the empty result {codeDocs: [], projectDetails: ""}.
C3_ReadPathNeverFails ==
  event.type = "getEmbeddings" =>
    /\ ~event.response.threw
    /\ event.failed =>
         /\ event.response.codeDocs = EmptyResult.codeDocs
         /\ event.response.projectDetails = EmptyResult.projectDetails

\* C3, its case: a retrieval threw while a batch was updating a store that
\* already holds entries, and the request was answered.
C3_Witness ==
  /\ event.type = "getEmbeddings"
  /\ event.failed
  /\ disk.files # {}
  /\ RunningBatches # {}

\* C4: when Store.initialize returned result = false, the postInitialize
\* that received it does not start indexing: it does not call
\* Store.createIndex on that store.
C4_NoIndexingOnFailedStore == ~init.result => init.pc # "createIndex"

\* C5: an indexerSettings request with a malformed inclusion filter leaves
\* the previous filter active everywhere: in the Indexer, in the file event
\* handler and in the server's indexerSettings.
C5_PreviousFilterRemains ==
  [][(IndexerSettingsReq /\ Malformed(indexerSettings')) =>
       /\ indexerSettings' = indexerSettings
       /\ fileEventHandler'.filter = fileEventHandler.filter
       /\ ixFilter'[indexer] = ixFilter[indexer]]_vars

\* C6, as amended: a fullIndexBuild request performs no store or indexer
\* operation exactly when embedding is disabled; otherwise it calls
\* Store.createIndex and, unless that call throws, hands every requested
\* file as a URI to Indexer.processDocuments with forceFull = true, so that
\* none is skipped for a hash that matches the cache.
C6_FullBuildForcesEveryFile ==
  /\ \A k \in Builds :
       /\ build[k].pc # "idle" => enabled
       /\ build[k].pc = "processDocuments" =>
            /\ build[k].handed = {filePathToUri(f) : f \in build[k].files}
            /\ build[k].forceFull
            /\ build[k].skipped = {}
  /\ event.type = "fullIndexBuildReturn" =>
       /\ event.createIndex = "not called" <=> ~enabled
       /\ event.processDocuments <=> event.createIndex = "resolved"

\* C6, its case: a full build is about to process a requested file whose
\* hash matches the cache of its Indexer.
C6_Witness ==
  \E k \in Builds :
    /\ build[k].pc = "processDocuments"
    /\ \E u \in build[k].todo :
         ixCache[build[k].ix][UriToPath(u)] = Hash(UriToPath(u))

\* C6, as stated: every fullIndexBuild request, unless embedding is
\* disabled, hands its files to Indexer.processDocuments.
C6_EveryRequestReachesTheIndexer ==
  event.type = "fullIndexBuildReturn" => (event.processDocuments \/ ~enabled)

\* C7: the "wingman/getIndex" response lists the keys of the current code
\* graph, its processing flag is true exactly when a batch is in flight, and
\* its three fields are taken from one store/indexer/graph instance.
C7_GetIndexReportsLiveState ==
  event.type = "getIndex" =>
    /\ event.files = SymbolTableKeys
    /\ event.processing <=> RunningBatches # {}
    /\ event.store = event.indexer
    /\ event.graph # 0 => event.indexer = event.graph

\* C8: once "wingman/deleteIndex" has re-initialized the server, file
\* notifications go to the live queue of the fresh instance, never to the
\* disposed one.
C8_SavesReachTheLiveQueue ==
  (registered /\ init.pc = "done") =>
    /\ fileEventHandler.queue = queue
    /\ ~qDisposed[fileEventHandler.queue]

\* C9: an indexerSettings request leaves the code graph's nodes and the
\* store's entries as they were, also those the new filter excludes; with a
\* well-formed filter the Indexer's hash cache is dropped and the filter is
\* the one the next scan applies.
C9_FilterChangeNotRetroactive ==
  [][IndexerSettingsReq =>
       /\ gNodes' = gNodes
       /\ disk' = disk
       /\ ~Malformed(indexerSettings') =>
            /\ ixCache'[indexer] = EmptyCache
            /\ ixFilter'[indexer] = indexerSettings']_vars

\* C9, its case: after a filter change the graph and the store still hold a
\* file that the Indexer's filter excludes.
C9_Witness ==
  /\ event.type = "indexerSettingsReturn"
  /\ \E p \in SymbolTableKeys \cap disk.files : ~Accepts(ixFilter[indexer], p)
  /\ ixCache[indexer] = EmptyCache

\* C10: no request runs Store.createIndex on the store of one instance and
\* then processDocuments on the Indexer of another.
C10_NoWorkAcrossInstances ==
  \A k \in Builds :
    build[k].pc = "processDocuments" => build[k].store = build[k].ix

\* The steps in which an Indexer operation runs: a file of a batch of
\* processDocuments, or deleteFile.
IndexerStep == FlushStep \/ BuildStep \/ DeleteFileFromIndexDone

\* C11: every mutation of the vector store (index creation, entry upsert,
\* entry or index deletion) and of the code graph the server references is
\* made by a step of an Indexer operation; postInitialize, the request
\* handlers and the query path make none themselves.
C11_IndexerIsSoleWriter ==
  [][(\/ disk' # disk
      \/ /\ codeGraph \in Gens
         /\ codeGraph' = codeGraph
         /\ gNodes'[codeGraph] # gNodes[codeGraph])
       => IndexerStep]_vars

PlanIsSound ==
  /\ \A k \in 1..Len(wFiles) :
       /\ plan.defined
       /\ wFiles[k] \in 1..Len(plan.files)
       /\ updatedPlan.files[k].changes # <<>>
  /\ \A j, k \in 1..Len(wFiles) :
       j # k => updatedPlan.files[j].path # updatedPlan.files[k].path

\* A response that names no file of the plan, or a path already collected,
\* or carries no changes.
Rejected ==
  \/ find(plan, wResult.file.path) = 0
  \/ \E k \in 1..Len(wFiles) : plan.files[wFiles[k]].path = wResult.file.path
  \/ wResult.file.changes = <<>>

\* C13: for every plan and every sequence of model responses, the plan that
\* codeWriterStep builds and returns contains only files that are elements of
\* state.plan.files, each path at most once, each with a non-empty changes
\* list; a response naming a path that is not in the plan, or one already
\* collected, or carrying no changes, adds no file.
C13_ReturnedPlanIsSound ==
  [][/\ PlanIsSound'
     /\ (WriterCollect /\ Rejected) => UNCHANGED <<plan, wFiles>>]_vars

\* C13, its case: the step returned one file of a plan that lists the same
\* path twice; the second response named that path again, with changes.
C13_Witness ==
  /\ wpc = "returned"
  /\ Len(plan.files) = 2
  /\ plan.files[1].path = plan.files[2].path
  /\ Len(dispatched) = 4
  /\ dispatched[2].name = "composer-plan-files"
  /\ wResult.file.path = plan.files[1].path
  /\ wResult.file.changes # <<>>
  /\ Len(wFiles) = 1

\* The positions in the dispatched events of the events of a name.
EventsNamed(name) == {a \in 1..Len(dispatched) : dispatched[a].name = name}

\* The invocations of the model that have been answered.
Answered ==
  Len(invoked) - (IF wpc \in {"invoke", "InvokeError"} THEN 1 ELSE 0)

\* The paths of the files in scope, in plan order.
ScopePaths == [i \in 1..Len(Scope(plan)) |-> Scope(plan)[i].path]

\* C14, as amended: when no awaited call rejects, codeWriterStep ends in one
\* of two ways.  With at least one file collected it dispatches
\* "composer-done" exactly once, as its last event, and returns the plan;
\* otherwise it throws NoFilesChangedError and never dispatches
\* "composer-done".  Before that the model was invoked once per file of the
\* plan, in plan order, with one "composer-manual-steps" event per answered
\* invocation, each just before the "composer-plan-files" event of the same
\* invocation if there is one.  Without a files list the model is invoked
\* once, with BLANK, and no file is collected.  When the invocation of the
\* model or the dispatch of an event rejects, the step ends there with that
\* error: after a prefix of the invocations, with "composer-done" dispatched
\* only if it was the dispatch that rejected, and the plan not returned.
C14_EndingsOfTheStep ==
  /\ wpc \in {"done", "returned"} =>
       /\ wFiles # <<>>
       /\ dispatched[Len(dispatched)].name = "composer-done"
  /\ wpc = "NoFilesChangedError" => wFiles = <<>>
  /\ wpc \in {"NoFilesChangedError", "InvokeError"} =>
       EventsNamed("composer-done") = {}
  /\ EventsNamed("composer-done") # {} =>
       /\ EventsNamed("composer-done") = {Len(dispatched)}
       /\ wFiles # <<>>
       /\ wpc \in {"done", "returned", "DispatchError"}
  /\ wpc = "DispatchError" => dispatched # <<>>
  /\ invoked = SubSeq(ScopePaths, 1, Len(invoked))
  /\ wpc \in {"done", "returned", "NoFilesChangedError"} => invoked = ScopePaths
  /\ ~plan.defined =>
       /\ invoked = IF wpc = "loop" /\ cursor = 1 THEN <<>> ELSE <<"BLANK">>
       /\ wFiles = <<>>
       /\ wpc \notin {"done", "returned"}
  /\ \A i \in 1..Answered :
       Cardinality({a \in EventsNamed("composer-manual-steps") :
                       dispatched[a].at = i}) = 1
  /\ Cardinality(EventsNamed("composer-manual-steps")) = Answered
  /\ \A a \in EventsNamed("composer-plan-files") :
       /\ a > 1
       /\ dispatched[a - 1] = [name |-> "composer-manual-steps",
                               at |-> dispatched[a].at]
  /\ \A a, b \in 1..Len(dispatched) :
       a < b => dispatched[a].at <= dispatched[b].at

\* C14, as stated: the step has two endings only, the return of the plan
\* after "composer-done" and NoFilesChangedError.
C14_ExactlyTwoEndings ==
  wpc \notin {"loop", "invoke", "collect", "plan-files", "done"} =>
    \/ /\ wpc = "returned"
       /\ wFiles # <<>>
       /\ EventsNamed("composer-done") = {Len(dispatched)}
    \/ /\ wpc = "NoFilesChangedError"
       /\ wFiles = <<>>
       /\ EventsNamed("composer-done") = {}

\* C14, its case: the step returned after two invocations of which only the
\* second collected a file.
C14_Witness ==
  /\ wpc = "returned"
  /\ Len(invoked) = 2
  /\ Len(dispatched) = 4
  /\ dispatched[2].name = "composer-manual-steps"
  /\ dispatched[4].name = "composer-done"

\* C15: onChatSubmitted is called only for an Enter event without Shift, or
\* a click on the send button (shown only while not loading), and only when
\* the textarea's value is non-empty; it is called with exactly that value
\* and the textarea is empty right after.  Shift+Enter, other keys and an
\* empty textarea do not submit, and the handler leaves the value as it was.
C15_SubmitOnlyOnEnter ==
  chatEvent.type \in {"keydown", "click"} =>
    /\ chatEvent.type = "click" => ~chatEvent.loading
    /\ chatEvent.submitted <=>
         /\ chatEvent.key = "Enter"
         /\ ~chatEvent.shiftKey
         /\ chatEvent.before # <<>>
    /\ chatEvent.submitted =>
         /\ chatEvent.message = chatEvent.before
         /\ value = <<>>
    /\ ~chatEvent.submitted => value = chatEvent.before

\* C15, its case: Enter without Shift submitted a value of several
\* characters, a line break among them, while a chat was loading.
C15_Witness ==
  /\ chatEvent.type = "keydown"
  /\ chatEvent.submitted
  /\ chatEvent.loading
  /\ Len(chatEvent.message) >= 2
  /\ \E a \in 1..Len(chatEvent.message) : chatEvent.message[a] = "\n"

====
